---- MODULE Spec2Model ----
(***************************************************************************)
(* kanso-rs: the versioned object-store contract (kanso-client), its       *)
(* in-memory backend (kanso-inmemory) and the expiring lease built on it   *)
(* (kanso-lease).                                                          *)
(*                                                                         *)
(* Spec      : concurrent tasks calling get / put / patch on one           *)
(*             InMemoryStore, one step per lock acquisition, critical      *)
(*             section stage and guard drop.                               *)
(* LeaseSpec : concurrent participants calling acquire / update / renew /  *)
(*             release on one path of that store under one clock, one      *)
(*             step per storage call and per stretch of code between two.  *)
(* ForeignSpec : LeaseSpec with another client of the store that creates   *)
(*             the object at the lease's path with metadata of its own.    *)
(* GcsSpec   : a caller of the GCS backend (kanso-gcs): path parsing, the  *)
(*             request built and sent, and the mapping of the answer.      *)
(* PathSpec  : a caller building requests from arbitrary strings.          *)
(* FairSpec  : the tasks of Spec with the lock's queue of waiting tasks    *)
(*             and a runtime that polls every task that can step.          *)
(***************************************************************************)
EXTENDS Integers, Sequences, FiniteSets, TLC

\* ------------------------------------------------------------------ bounds
NumTasks == 2
MaxVersion == 3
NumParticipants == 2
MaxWrites == 4
MaxTime == 3
MaxPathLen == 5

Tasks == 1..NumTasks
NoTask == 0
Participants == 1..NumParticipants

\* ------------------------------------------------------- values of the API
\* Keys, payloads and metadata the compliance suite uses (test-suite/src/lib.rs).
Keys == {"test/key", "nonexistent"}
Payloads == {"v1", "v2"}

\* Metadata { headers: HashMap<String, String> }: a function on the keys present.
MetadataNew == <<>>
MetadataWith(key, value) == key :> value
PutMetadatas == {MetadataWith("k", "v")}
PatchMetadatas == {MetadataNew, MetadataWith("k2", "v2")}

\* Option<T>
None == [some |-> FALSE]
Some(x) == [some |-> TRUE, val |-> x]

\* u64::to_string: decimal digits, most significant first, no padding.
Digit == <<"0", "1", "2", "3", "4", "5", "6", "7", "8", "9">>
RECURSIVE to_string(_)
to_string(n) == IF n < 10 THEN Digit[n + 1]
                ELSE to_string(n \div 10) \o Digit[(n % 10) + 1]

\* Version(String)
VersionNew(s) == s
Versions == {VersionNew(to_string(n)) : n \in 1..MaxVersion}

\* enum Condition, and Option<Condition> of a request
IfAbsent == [kind |-> "IfAbsent"]
IfVersionMatches(v) == [kind |-> "IfVersionMatches", version |-> v]
Conditions == {None, Some(IfAbsent)} \cup {Some(IfVersionMatches(v)) : v \in Versions}

\* enum Error (kanso_client) and the results of the three calls
ConditionFailed(c) == [tag |-> "ConditionFailed", condition |-> c]
NotFound == [tag |-> "NotFound"]
Ok(x) == [tag |-> "Ok", val |-> x]
Err(e) == [tag |-> "Err", err |-> e]
Pending == [tag |-> "Pending"]

GetRequest(key) == [op |-> "get", key |-> key]
PutRequestNew(key, value) ==
    [op |-> "put", key |-> key, value |-> value, condition |-> None, metadata |-> None]
PatchRequestNew(key, metadata) ==
    [op |-> "patch", key |-> key, metadata |-> metadata, condition |-> None]
if_absent(r) == [r EXCEPT !.condition = Some(IfAbsent)]
if_version_matches(r, v) == [r EXCEPT !.condition = Some(IfVersionMatches(v))]
with_metadata(r, m) == [r EXCEPT !.metadata = Some(m)]

NoRequest == [op |-> "none"]

\* The calls a task may make: every shape of request on the suite's key, and the
\* plain get / put / patch on a second key.
Requests ==
    {GetRequest(k) : k \in Keys}
    \cup {[PutRequestNew("test/key", b) EXCEPT !.condition = c, !.metadata = m] :
            b \in Payloads, c \in Conditions,
            m \in {None} \cup {Some(x) : x \in PutMetadatas}}
    \cup {[PatchRequestNew("test/key", m) EXCEPT !.condition = c] :
            m \in PatchMetadatas, c \in Conditions}
    \cup {PutRequestNew("nonexistent", "v1"), PatchRequestNew("nonexistent", MetadataNew)}

\* ------------------------------------------------------------------- state
VARIABLES
    data,             \* InMemoryStore.data: HashMap<String, StoredObject>
    version_counter,  \* InMemoryStore.version_counter
    data_writer,      \* the task holding data's write guard, or NoTask
    data_readers,     \* the tasks holding a read guard of data
    counter_writer,   \* the task holding version_counter's write guard, or NoTask
    pc,               \* where each task is in its call
    request,          \* the request of each task's call
    value,            \* patch: the bytes cloned from the existing object
    version,          \* put/patch: the version next_version returned
    result,           \* what the call returned
    pre,              \* history: data as the call found it when it took the lock
    issued_at,        \* history: Some(version at the key) / None when the call was made
    versions,         \* history: per key, the versions it has had, oldest first
    last_write,       \* history: per key, what the last accepted write returned and gave
    now,              \* the clock current_timestamp reads, in seconds
    lease_pc,         \* where each participant is in its lease operation
    lease_op,         \* the lease operation each participant is in or has left
    acquire,          \* AcquireRequest { owner, ttl, init_value } of each participant
    lease,            \* Option<Lease { owner, ttl, version }> each participant holds
    existing,         \* acquire / release: what their get returned
    prepared,         \* the put or copy request built and about to execute
    outcome,          \* what the lease operation returned
    writes,           \* history: the puts and copies the operation has executed
    auth,             \* GcsStore.auth is Some
    gcs_pc,           \* where the caller of the GCS store is in its call
    gcs_request,      \* the request of that call
    bucket_key,       \* what parse_path returned: (bucket, key)
    url,              \* the url built, with its query
    token,            \* what get_token returned
    sent,             \* the HTTP request sent
    response,         \* the HTTP response received
    gcs_result,       \* what the call returned
    input,            \* the string a caller hands to a request constructor
    built,            \* what the constructor returned
    executed,         \* the request that reached the store
    data_queue        \* the tasks waiting for data's lock, in order of arrival

task_vars == <<data_writer, data_readers, counter_writer, pc, request, value, version,
               result, pre, issued_at, versions, last_write, data_queue>>
lease_vars == <<now, lease_pc, lease_op, acquire, lease, existing, prepared, outcome,
                writes>>
gcs_vars == <<auth, gcs_pc, gcs_request, bucket_key, url, token, sent, response,
              gcs_result>>
path_vars == <<input, built, executed>>
vars == <<data, version_counter, task_vars, lease_vars, gcs_vars, path_vars>>

StoredObject(v, ver, m) == [value |-> v, version |-> ver, metadata |-> m]

\* --------------------------------------------------- the backend's functions
\* next_version without the increment
next_version_NoIncrement(counter) ==
    [counter |-> counter, version |-> VersionNew(to_string(counter))]

\* next_version: *counter += 1; Version::new(counter.to_string())
next_version(counter) ==
    [counter |-> counter + 1, version |-> VersionNew(to_string(counter + 1))]

\* get that forgets the object's metadata
GetResponse_NoMetadata(d, r) ==
    IF r.key \in DOMAIN d
    THEN Some([value |-> d[r.key].value, version |-> d[r.key].version,
               metadata |-> MetadataNew])
    ELSE None

\* get: data.get(key).map(|obj| GetResponse {..})
GetResponse(d, r) ==
    IF r.key \in DOMAIN d
    THEN Some([value |-> d[r.key].value, version |-> d[r.key].version,
               metadata |-> d[r.key].metadata])
    ELSE None

\* put whose IfVersionMatches arm only checks that the object exists
PutCheck_NoVersionCompare(d, r) ==
    IF r.condition.some
    THEN LET condition == r.condition.val IN
         IF condition.kind = "IfAbsent"
         THEN IF r.key \in DOMAIN d THEN Some(ConditionFailed(condition)) ELSE None
         ELSE IF r.key \in DOMAIN d THEN None ELSE Some(ConditionFailed(condition))
    ELSE None

\* put whose IfAbsent arm tests the wrong way round
PutCheck_IfAbsentInverted(d, r) ==
    IF r.condition.some
    THEN LET condition == r.condition.val IN
         IF condition.kind = "IfAbsent"
         THEN IF r.key \notin DOMAIN d THEN Some(ConditionFailed(condition)) ELSE None
         ELSE IF r.key \in DOMAIN d /\ d[r.key].version = condition.version
              THEN None
              ELSE Some(ConditionFailed(condition))
    ELSE None

\* put, "Check conditions": the error it returns, or None to go on
PutCheck(d, r) ==
    IF r.condition.some
    THEN LET condition == r.condition.val IN
         IF condition.kind = "IfAbsent"
         THEN IF r.key \in DOMAIN d THEN Some(ConditionFailed(condition)) ELSE None
         ELSE IF r.key \in DOMAIN d /\ d[r.key].version = condition.version
              THEN None
              ELSE Some(ConditionFailed(condition))
    ELSE None

\* request.metadata.unwrap_or_default()
unwrap_or_default(m) == IF m.some THEN m.val ELSE MetadataNew

Insert(d, key, obj) == [k \in DOMAIN d \cup {key} |-> IF k = key THEN obj ELSE d[k]]

\* put that keeps the old metadata when the request carries none
PutInsert_KeepsMetadata(d, r, ver) ==
    Insert(d, r.key,
           StoredObject(r.value, ver,
                        IF r.metadata.some THEN r.metadata.val
                        ELSE IF r.key \in DOMAIN d THEN d[r.key].metadata
                        ELSE MetadataNew))

\* put: data.insert(key, StoredObject { value: request.value, version, metadata })
PutInsert(d, r, ver) ==
    Insert(d, r.key, StoredObject(r.value, ver, unwrap_or_default(r.metadata)))

\* patch: the existing object's bytes, or NotFound
PatchValue(d, r) ==
    IF r.key \in DOMAIN d THEN Ok(d[r.key].value) ELSE Err(NotFound)

\* patch that ignores the expected version
PatchCheck_NoVersionCompare(d, r) ==
    IF r.condition.some
    THEN LET condition == r.condition.val IN
         IF condition.kind = "IfAbsent" THEN Some(ConditionFailed(condition)) ELSE None
    ELSE None

\* patch, "Check condition if present" (the object exists)
PatchCheck(d, r) ==
    IF r.condition.some
    THEN LET condition == r.condition.val IN
         IF condition.kind = "IfAbsent"
         THEN Some(ConditionFailed(condition))
         ELSE IF d[r.key].version # condition.version
              THEN Some(ConditionFailed(condition))
              ELSE None
    ELSE None

\* patch that stores the object under its old version
PatchInsert_KeepsVersion(d, r, val, ver) ==
    Insert(d, r.key, StoredObject(val, d[r.key].version, r.metadata))

\* patch that merges the request's metadata into the old one
PatchInsert_Merges(d, r, val, ver) ==
    Insert(d, r.key,
           StoredObject(val, ver,
                        [h \in DOMAIN d[r.key].metadata \cup DOMAIN r.metadata |->
                            IF h \in DOMAIN r.metadata THEN r.metadata[h]
                            ELSE d[r.key].metadata[h]]))

\* patch that stores the object without its bytes
PatchInsert_DropsValue(d, r, val, ver) ==
    Insert(d, r.key, StoredObject("", ver, r.metadata))

\* patch: data.insert(key, StoredObject { value, version, metadata: request.metadata })
PatchInsert(d, r, val, ver) ==
    Insert(d, r.key, StoredObject(val, ver, r.metadata))

\* ------------------------------------------------------------------ actions
IsWrite(r) == r.op \in {"put", "patch"}

\* Writes that have been called and have not minted their version yet.
WritesInFlight ==
    Cardinality({t \in Tasks : pc[t] \in {"write_lock", "put_check", "patch_check",
                                          "counter_lock", "mint"}})

CurrentVersion(key) == IF key \in DOMAIN data THEN Some(data[key].version) ELSE None

StoreInit ==
    /\ data = <<>>
    /\ version_counter = 0
    /\ data_writer = NoTask
    /\ data_readers = {}
    /\ counter_writer = NoTask
    /\ pc = [t \in Tasks |-> "idle"]
    /\ request = [t \in Tasks |-> NoRequest]
    /\ value = [t \in Tasks |-> ""]
    /\ version = [t \in Tasks |-> ""]
    /\ result = [t \in Tasks |-> Pending]
    /\ pre = [t \in Tasks |-> <<>>]
    /\ issued_at = [t \in Tasks |-> None]
    /\ versions = [k \in Keys |-> <<>>]
    /\ last_write = <<>>
    /\ now = 1
    /\ lease_pc = [p \in Participants |-> "idle"]
    /\ lease_op = [p \in Participants |-> "none"]
    /\ acquire = [p \in Participants |-> None]
    /\ lease = [p \in Participants |-> None]
    /\ existing = [p \in Participants |-> None]
    /\ prepared = [p \in Participants |-> NoRequest]
    /\ outcome = [p \in Participants |-> Pending]
    /\ writes = [p \in Participants |-> 0]
    /\ data_queue = <<>>

\* No call of the GCS store in progress.
GcsIdle ==
    /\ gcs_pc = "idle"
    /\ gcs_request = NoRequest
    /\ bucket_key = None
    /\ url = None
    /\ token = None
    /\ sent = None
    /\ response = None
    /\ gcs_result = Pending

\* No request being built.
PathIdle ==
    /\ input = None
    /\ built = Pending
    /\ executed = None

Init ==
    /\ StoreInit
    /\ GcsIdle
    /\ auth = FALSE
    /\ PathIdle

\* A task calls client.get / put / patch with one of the requests: the future
\* starts and awaits the lock.
CallWith(t, requests) ==
    /\ pc[t] = "idle"
    /\ \E r \in requests :
        /\ IsWrite(r) => version_counter + WritesInFlight < MaxVersion
        /\ request' = [request EXCEPT ![t] = r]
        /\ issued_at' = [issued_at EXCEPT ![t] = CurrentVersion(r.key)]
        /\ pc' = [pc EXCEPT ![t] = IF IsWrite(r) THEN "write_lock" ELSE "read_lock"]
    /\ UNCHANGED <<lease_vars, gcs_vars, path_vars, data_queue>>
    /\ UNCHANGED <<data, version_counter, data_writer, data_readers, counter_writer,
                   value, version, result, pre, versions, last_write>>

Call(t) == CallWith(t, Requests)

\* get: let data = self.data.read().await, the read guard granted
GetLockStep(t) ==
    /\ pc[t] = "read_lock"
    /\ data_writer = NoTask
    /\ data_readers' = data_readers \cup {t}
    /\ pc' = [pc EXCEPT ![t] = "get_read"]
    /\ UNCHANGED <<lease_vars, gcs_vars, path_vars>>
    /\ UNCHANGED <<data, version_counter, data_writer, counter_writer, request, value,
                   version, result, pre, issued_at, versions, last_write>>

\* get: the read guard granted whenever no writer holds the lock
GetLock(t) == GetLockStep(t) /\ UNCHANGED data_queue

\* get: Ok(data.get(..).map(..)), the read guard still held
GetRead(t) ==
    /\ pc[t] = "get_read"
    /\ result' = [result EXCEPT ![t] = Ok(GetResponse(data, request[t]))]
    /\ pc' = [pc EXCEPT ![t] = "read_unlock"]
    /\ UNCHANGED <<lease_vars, gcs_vars, path_vars, data_queue>>
    /\ UNCHANGED <<data, version_counter, data_writer, data_readers, counter_writer,
                   request, value, version, pre, issued_at, versions, last_write>>

\* get returns: the read guard drops
GetUnlock(t) ==
    /\ pc[t] = "read_unlock"
    /\ data_readers' = data_readers \ {t}
    /\ pc' = [pc EXCEPT ![t] = "done"]
    /\ UNCHANGED <<lease_vars, gcs_vars, path_vars, data_queue>>
    /\ UNCHANGED <<data, version_counter, data_writer, counter_writer, request, value,
                   version, result, pre, issued_at, versions, last_write>>

\* put / patch: let mut data = self.data.write().await, the write guard granted
WriteLockStep(t) ==
    /\ pc[t] = "write_lock"
    /\ data_writer = NoTask
    /\ data_readers = {}
    /\ data_writer' = t
    /\ pre' = [pre EXCEPT ![t] = data]
    /\ pc' = [pc EXCEPT ![t] = IF request[t].op = "put" THEN "put_check" ELSE "patch_check"]
    /\ UNCHANGED <<lease_vars, gcs_vars, path_vars>>
    /\ UNCHANGED <<data, version_counter, data_readers, counter_writer, request, value,
                   version, result, issued_at, versions, last_write>>

\* put / patch: the write guard granted whenever nobody holds the lock
WriteLock(t) == WriteLockStep(t) /\ UNCHANGED data_queue

\* put: the condition check; a failed condition returns its error
PutCondition(t) ==
    /\ pc[t] = "put_check"
    /\ LET failed == PutCheck(data, request[t]) IN
        IF failed.some
        THEN /\ result' = [result EXCEPT ![t] = Err(failed.val)]
             /\ pc' = [pc EXCEPT ![t] = "write_unlock"]
        ELSE /\ pc' = [pc EXCEPT ![t] = "counter_lock"]
             /\ UNCHANGED result
    /\ UNCHANGED <<lease_vars, gcs_vars, path_vars, data_queue>>
    /\ UNCHANGED <<data, version_counter, data_writer, data_readers, counter_writer,
                   request, value, version, pre, issued_at, versions, last_write>>

\* patch: the lookup of the existing bytes, then the condition check
PatchCondition(t) ==
    /\ pc[t] = "patch_check"
    /\ LET found == PatchValue(data, request[t]) IN
        IF found.tag = "Err"
        THEN /\ result' = [result EXCEPT ![t] = found]
             /\ pc' = [pc EXCEPT ![t] = "write_unlock"]
             /\ UNCHANGED value
        ELSE LET failed == PatchCheck(data, request[t]) IN
             IF failed.some
             THEN /\ result' = [result EXCEPT ![t] = Err(failed.val)]
                  /\ pc' = [pc EXCEPT ![t] = "write_unlock"]
                  /\ UNCHANGED value
             ELSE /\ value' = [value EXCEPT ![t] = found.val]
                  /\ pc' = [pc EXCEPT ![t] = "counter_lock"]
                  /\ UNCHANGED result
    /\ UNCHANGED <<lease_vars, gcs_vars, path_vars, data_queue>>
    /\ UNCHANGED <<data, version_counter, data_writer, data_readers, counter_writer,
                   request, version, pre, issued_at, versions, last_write>>

\* next_version: let mut counter = self.version_counter.write().await
CounterLock(t) ==
    /\ pc[t] = "counter_lock"
    /\ counter_writer = NoTask
    /\ counter_writer' = t
    /\ pc' = [pc EXCEPT ![t] = "mint"]
    /\ UNCHANGED <<lease_vars, gcs_vars, path_vars, data_queue>>
    /\ UNCHANGED <<data, version_counter, data_writer, data_readers, request, value,
                   version, result, pre, issued_at, versions, last_write>>

\* next_version that returns with the counter guard still held
Mint_KeepsGuard(t) ==
    /\ pc[t] = "mint"
    /\ LET next == next_version(version_counter) IN
        /\ version_counter' = next.counter
        /\ version' = [version EXCEPT ![t] = next.version]
    /\ counter_writer' = t
    /\ pc' = [pc EXCEPT ![t] = "insert"]
    /\ UNCHANGED <<lease_vars, gcs_vars, path_vars, data_queue>>
    /\ UNCHANGED <<data, data_writer, data_readers, request, value, result, pre,
                   issued_at, versions, last_write>>

\* next_version: the increment, the new Version, and the counter guard drops
Mint(t) ==
    /\ pc[t] = "mint"
    /\ LET next == next_version(version_counter) IN
        /\ version_counter' = next.counter
        /\ version' = [version EXCEPT ![t] = next.version]
    /\ counter_writer' = NoTask
    /\ pc' = [pc EXCEPT ![t] = "insert"]
    /\ UNCHANGED <<lease_vars, gcs_vars, path_vars, data_queue>>
    /\ UNCHANGED <<data, data_writer, data_readers, request, value, result, pre,
                   issued_at, versions, last_write>>

\* put / patch: data.insert(..) and Ok(Response { version })
WriteInsert(t) ==
    /\ pc[t] = "insert"
    /\ LET r == request[t] IN
        /\ data' = IF r.op = "put" THEN PutInsert(data, r, version[t])
                   ELSE PatchInsert(data, r, value[t], version[t])
        /\ last_write' =
             Insert(last_write, r.key,
                    [version |-> version[t],
                     value |-> IF r.op = "put" THEN r.value ELSE pre[t][r.key].value,
                     metadata |-> IF r.op = "put" THEN unwrap_or_default(r.metadata)
                                  ELSE r.metadata])
        /\ versions' = [versions EXCEPT ![r.key] = Append(@, version[t])]
    /\ result' = [result EXCEPT ![t] = Ok([version |-> version[t]])]
    /\ pc' = [pc EXCEPT ![t] = "write_unlock"]
    /\ UNCHANGED <<lease_vars, gcs_vars, path_vars, data_queue>>
    /\ UNCHANGED <<version_counter, data_writer, data_readers, counter_writer, request,
                   value, version, pre, issued_at>>

\* put / patch returns: the write guard drops
WriteUnlock(t) ==
    /\ pc[t] = "write_unlock"
    /\ data_writer' = NoTask
    /\ pc' = [pc EXCEPT ![t] = "done"]
    /\ UNCHANGED <<lease_vars, gcs_vars, path_vars, data_queue>>
    /\ UNCHANGED <<data, version_counter, data_readers, counter_writer, request, value,
                   version, result, pre, issued_at, versions, last_write>>

\* The caller has its result and is free to make its next call.
Return(t) ==
    /\ pc[t] = "done"
    /\ pc' = [pc EXCEPT ![t] = "idle"]
    /\ request' = [request EXCEPT ![t] = NoRequest]
    /\ value' = [value EXCEPT ![t] = ""]
    /\ version' = [version EXCEPT ![t] = ""]
    /\ result' = [result EXCEPT ![t] = Pending]
    /\ pre' = [pre EXCEPT ![t] = <<>>]
    /\ issued_at' = [issued_at EXCEPT ![t] = None]
    /\ UNCHANGED <<lease_vars, gcs_vars, path_vars, data_queue>>
    /\ UNCHANGED <<data, version_counter, data_writer, data_readers, counter_writer,
                   versions, last_write>>

Next ==
    \E t \in Tasks :
        \/ Call(t)
        \/ GetLock(t)
        \/ GetRead(t)
        \/ GetUnlock(t)
        \/ WriteLock(t)
        \/ PutCondition(t)
        \/ PatchCondition(t)
        \/ CounterLock(t)
        \/ Mint(t)
        \/ WriteInsert(t)
        \/ WriteUnlock(t)
        \/ Return(t)

Spec == Init /\ [][Next]_vars

\* ------------------------------------------------------- the lock's queue
\* tokio's RwLock grants its guards in the order in which the tasks arrived:
\* a task that polls read() or write() joins the queue, and the guard goes to
\* the task at the head of the queue as soon as the lock admits it.
LiveRequests ==
    {GetRequest("test/key"),
     PutRequestNew("test/key", "v1"),
     if_absent(PutRequestNew("test/key", "v1")),
     PatchRequestNew("test/key", MetadataNew)}

LiveCall(t) == CallWith(t, LiveRequests)

\* read().await / write().await polled for the first time: the task joins the queue
Enqueue(t) ==
    /\ pc[t] \in {"read_lock", "write_lock"}
    /\ \A i \in 1..Len(data_queue) : data_queue[i] # t
    /\ data_queue' = Append(data_queue, t)
    /\ UNCHANGED <<data, version_counter, lease_vars, gcs_vars, path_vars>>
    /\ UNCHANGED <<data_writer, data_readers, counter_writer, pc, request, value, version,
                   result, pre, issued_at, versions, last_write>>

\* the task at the head of the queue is granted its read guard
FairGetLock(t) ==
    /\ data_queue # <<>>
    /\ Head(data_queue) = t
    /\ GetLockStep(t)
    /\ data_queue' = Tail(data_queue)

\* the task at the head of the queue is granted the write guard
FairWriteLock(t) ==
    /\ data_queue # <<>>
    /\ Head(data_queue) = t
    /\ WriteLockStep(t)
    /\ data_queue' = Tail(data_queue)

\* A step of t's call that the runtime takes once it can be taken.
Progress(t) ==
    \/ Enqueue(t)
    \/ FairGetLock(t)
    \/ GetRead(t)
    \/ GetUnlock(t)
    \/ FairWriteLock(t)
    \/ PutCondition(t)
    \/ PatchCondition(t)
    \/ CounterLock(t)
    \/ Mint(t)
    \/ WriteInsert(t)
    \/ WriteUnlock(t)

FairNext ==
    \E t \in Tasks :
        \/ LiveCall(t)
        \/ Enqueue(t)
        \/ FairGetLock(t)
        \/ GetRead(t)
        \/ GetUnlock(t)
        \/ FairWriteLock(t)
        \/ PutCondition(t)
        \/ PatchCondition(t)
        \/ CounterLock(t)
        \/ Mint(t)
        \/ WriteInsert(t)
        \/ WriteUnlock(t)
        \/ Return(t)

\* The runtime polls every task that can make a step of its call; callers are
\* free to call or not.
FairSpec == Init /\ [][FairNext]_vars /\ \A t \in Tasks : WF_vars(Progress(t))


\* ================================================================== lease
\* The path, owners, ttls (seconds) and payloads of the lease runs.
LeasePath == "test-key"
Owners == {"test-owner", "different-owner"}
Ttls == {1, 2}
Values == {0, 1}

OWNER_HEADER == "x-kanso-lease-owner"
EXPIRY_HEADER == "x-kanso-lease-expiry"

\* enum LeaseError
LeaseHeld == [tag |-> "LeaseHeld"]
Conflict == [tag |-> "Conflict"]
LeaseNotFound == [tag |-> "LeaseError::NotFound"]
Storage(e) == [tag |-> "Storage", err |-> e]
Serialization == [tag |-> "Serialization"]
InvalidMetadata == [tag |-> "InvalidMetadata"]

\* serde_json::to_vec(&TestData { count }) and serde_json::from_slice
to_vec(v) == "{\"count\":" \o to_string(v) \o "}"
from_slice(bytes) ==
    IF \E v \in Values : to_vec(v) = bytes
    THEN Ok(CHOOSE v \in Values : to_vec(v) = bytes)
    ELSE Err(Serialization)

\* str::parse::<u64>().ok() on the decimal strings and non-numbers of the model
parse(s) ==
    IF \E n \in 0..(MaxTime + 2) : to_string(n) = s
    THEN Some(CHOOSE n \in 0..(MaxTime + 2) : to_string(n) = s)
    ELSE None

\* the two inserts with their values exchanged
LeaseMetadata_Swapped(owner, expiry) ==
    [h \in {OWNER_HEADER, EXPIRY_HEADER} |-> IF h = OWNER_HEADER THEN expiry ELSE owner]

\* Metadata::new() and the two inserts every lease write makes
LeaseMetadata(owner, expiry) ==
    [h \in {OWNER_HEADER, EXPIRY_HEADER} |-> IF h = OWNER_HEADER THEN owner ELSE expiry]

\* current_timestamp
current_timestamp == now

\* get_expiry with unwrap_or(0) for the error
get_expiry_OrZero(metadata) ==
    IF EXPIRY_HEADER \in DOMAIN metadata /\ parse(metadata[EXPIRY_HEADER]).some
    THEN Ok(parse(metadata[EXPIRY_HEADER]).val)
    ELSE Ok(0)

\* get_expiry
get_expiry(metadata) ==
    IF EXPIRY_HEADER \in DOMAIN metadata /\ parse(metadata[EXPIRY_HEADER]).some
    THEN Ok(parse(metadata[EXPIRY_HEADER]).val)
    ELSE Err(InvalidMetadata)

\* get_owner
get_owner(metadata) ==
    IF OWNER_HEADER \in DOMAIN metadata THEN Ok(metadata[OWNER_HEADER])
    ELSE Err(InvalidMetadata)

\* is_lease_alive that still counts the second of expiry itself
is_lease_alive_Inclusive(expiry) == expiry >= current_timestamp

\* is_lease_alive with the comparison turned round
is_lease_alive_Inverted(expiry) == expiry < current_timestamp

\* is_lease_alive
is_lease_alive(expiry) == expiry > current_timestamp

\* acquire's test without the owner comparison
LeaseIsHeld_IgnoresOwner(expiry, current_owner, owner) == is_lease_alive(expiry)

\* acquire's test with || for &&
LeaseIsHeld_Or(expiry, current_owner, owner) ==
    is_lease_alive(expiry) \/ current_owner # owner

\* acquire's test with the owner comparison turned round
LeaseIsHeld_SameOwner(expiry, current_owner, owner) ==
    is_lease_alive(expiry) /\ current_owner = owner

\* acquire: is_lease_alive(expiry) && current_owner != self.owner
LeaseIsHeld(expiry, current_owner, owner) ==
    is_lease_alive(expiry) /\ current_owner # owner

\* put that stores the object although its condition failed
PutCall_WritesOnFailure(d, counter, r) ==
    LET failed == PutCheck(d, r)
        next == next_version(counter)
    IN [data |-> PutInsert(d, r, next.version), counter |-> next.counter,
        result |-> IF failed.some THEN Err(failed.val)
                   ELSE Ok([version |-> next.version])]

\* One whole call of InMemoryStore::put, from the write guard taken to its drop.
PutCall(d, counter, r) ==
    LET failed == PutCheck(d, r) IN
    IF failed.some
    THEN [data |-> d, counter |-> counter, result |-> Err(failed.val)]
    ELSE LET next == next_version(counter) IN
         [data |-> PutInsert(d, r, next.version), counter |-> next.counter,
          result |-> Ok([version |-> next.version])]

\* One whole call of InMemoryStore::patch.
PatchCall(d, counter, r) ==
    LET found == PatchValue(d, r) IN
    IF found.tag = "Err"
    THEN [data |-> d, counter |-> counter, result |-> found]
    ELSE LET failed == PatchCheck(d, r) IN
         IF failed.some
         THEN [data |-> d, counter |-> counter, result |-> Err(failed.val)]
         ELSE LET next == next_version(counter) IN
              [data |-> PatchInsert(d, r, found.val, next.version),
               counter |-> next.counter, result |-> Ok([version |-> next.version])]

\* CopyRequest::new(path, metadata): the metadata-only write of the contract,
\* and its execution by the store.
CopyRequestNew(path, metadata) == PatchRequestNew(path, metadata)
CopyCall(d, counter, r) == PatchCall(d, counter, r)

\* map_err that lets the storage error through
MapConflict_Storage(res) == IF res.tag = "Err" THEN Err(Storage(res.err)) ELSE res

\* The map_err(|_| LeaseError::Conflict) of the conditional writes.
MapConflict(res) == IF res.tag = "Err" THEN Err(Conflict) ELSE res

\* ----------------------------------------------------------- lease actions
InOperation(p) == lease_pc[p] \notin {"idle", "done"}

\* Operations are started while the writes they may make fit the bound.
Budget == version_counter + Cardinality({p \in Participants : InOperation(p)}) < MaxWrites

\* The clock advances.
Tick ==
    /\ now < MaxTime
    /\ now' = now + 1
    /\ UNCHANGED <<task_vars, gcs_vars, path_vars>>
    /\ UNCHANGED <<data, version_counter, lease_pc, lease_op, acquire, lease, existing,
                   prepared, outcome, writes>>

\* AcquireRequest::new(..).owner(..).ttl(..).execute: the get
AcquireGet(p) ==
    /\ lease_pc[p] = "idle"
    /\ lease[p] = None
    /\ Budget
    /\ \E owner \in Owners, ttl \in Ttls, init_value \in Values :
        acquire' = [acquire EXCEPT ![p] =
                        Some([owner |-> owner, ttl |-> ttl, init_value |-> init_value])]
    /\ lease_op' = [lease_op EXCEPT ![p] = "acquire"]
    /\ existing' = [existing EXCEPT ![p] = GetResponse(data, GetRequest(LeasePath))]
    /\ lease_pc' = [lease_pc EXCEPT ![p] = "acquire_match"]
    /\ UNCHANGED <<task_vars, gcs_vars, path_vars>>
    /\ UNCHANGED <<data, version_counter, now, lease, prepared, outcome, writes>>

\* acquire, None arm: the put request with the serialized init_value
AcquireInit(p) ==
    /\ lease_pc[p] = "acquire_match"
    /\ ~existing[p].some
    /\ LET a == acquire[p].val
           expiry == current_timestamp + a.ttl
       IN prepared' = [prepared EXCEPT ![p] =
            with_metadata(if_absent(PutRequestNew(LeasePath, to_vec(a.init_value))),
                          LeaseMetadata(a.owner, to_string(expiry)))]
    /\ lease_pc' = [lease_pc EXCEPT ![p] = "acquire_put"]
    /\ UNCHANGED <<task_vars, gcs_vars, path_vars>>
    /\ UNCHANGED <<data, version_counter, now, lease_op, acquire, lease, existing,
                   outcome, writes>>

\* acquire, None arm: the put executes; its error passes through `?`
AcquirePut(p) ==
    /\ lease_pc[p] = "acquire_put"
    /\ LET call == PutCall(data, version_counter, prepared[p])
           a == acquire[p].val
       IN /\ data' = call.data
          /\ version_counter' = call.counter
          /\ IF call.result.tag = "Err"
             THEN /\ outcome' = [outcome EXCEPT ![p] = Err(Storage(call.result.err))]
                  /\ UNCHANGED lease
             ELSE /\ outcome' = [outcome EXCEPT ![p] = Ok([value |-> a.init_value])]
                  /\ lease' = [lease EXCEPT ![p] =
                        Some([owner |-> a.owner, ttl |-> a.ttl,
                              version |-> call.result.val.version])]
    /\ writes' = [writes EXCEPT ![p] = @ + 1]
    /\ lease_pc' = [lease_pc EXCEPT ![p] = "done"]
    /\ UNCHANGED <<task_vars, gcs_vars, path_vars>>
    /\ UNCHANGED <<now, lease_op, acquire, existing, prepared>>

\* acquire, Some arm: get_expiry, get_owner and the LeaseHeld test
AcquireCheck(p) ==
    /\ lease_pc[p] = "acquire_match"
    /\ existing[p].some
    /\ LET resp == existing[p].val
           expiry == get_expiry(resp.metadata)
           current_owner == get_owner(resp.metadata)
       IN IF expiry.tag = "Err" \/ current_owner.tag = "Err"
          THEN /\ outcome' = [outcome EXCEPT ![p] = Err(InvalidMetadata)]
               /\ lease_pc' = [lease_pc EXCEPT ![p] = "done"]
          ELSE IF LeaseIsHeld(expiry.val, current_owner.val, acquire[p].val.owner)
          THEN /\ outcome' = [outcome EXCEPT ![p] = Err(LeaseHeld)]
               /\ lease_pc' = [lease_pc EXCEPT ![p] = "done"]
          ELSE /\ lease_pc' = [lease_pc EXCEPT ![p] = "acquire_takeover"]
               /\ UNCHANGED outcome
    /\ UNCHANGED <<task_vars, gcs_vars, path_vars>>
    /\ UNCHANGED <<data, version_counter, now, lease_op, acquire, lease, existing,
                   prepared, writes>>

\* acquire, Some arm: the existing value deserialized and the copy request
AcquireTakeover(p) ==
    /\ lease_pc[p] = "acquire_takeover"
    /\ LET resp == existing[p].val
           a == acquire[p].val
           val == from_slice(resp.value)
           expiry == current_timestamp + a.ttl
       IN IF val.tag = "Err"
          THEN /\ outcome' = [outcome EXCEPT ![p] = val]
               /\ lease_pc' = [lease_pc EXCEPT ![p] = "done"]
               /\ UNCHANGED prepared
          ELSE /\ prepared' = [prepared EXCEPT ![p] =
                    if_version_matches(
                        CopyRequestNew(LeasePath, LeaseMetadata(a.owner, to_string(expiry))),
                        resp.version)]
               /\ lease_pc' = [lease_pc EXCEPT ![p] = "acquire_copy"]
               /\ UNCHANGED outcome
    /\ UNCHANGED <<task_vars, gcs_vars, path_vars>>
    /\ UNCHANGED <<data, version_counter, now, lease_op, acquire, lease, existing,
                   writes>>

\* acquire, Some arm: the copy executes; any error becomes Conflict
AcquireCopy(p) ==
    /\ lease_pc[p] = "acquire_copy"
    /\ LET call == CopyCall(data, version_counter, prepared[p])
           res == MapConflict(call.result)
           a == acquire[p].val
       IN /\ data' = call.data
          /\ version_counter' = call.counter
          /\ IF res.tag = "Err"
             THEN /\ outcome' = [outcome EXCEPT ![p] = res]
                  /\ UNCHANGED lease
             ELSE /\ outcome' = [outcome EXCEPT ![p] =
                        Ok([value |-> from_slice(existing[p].val.value).val])]
                  /\ lease' = [lease EXCEPT ![p] =
                        Some([owner |-> a.owner, ttl |-> a.ttl,
                              version |-> res.val.version])]
    /\ writes' = [writes EXCEPT ![p] = @ + 1]
    /\ lease_pc' = [lease_pc EXCEPT ![p] = "done"]
    /\ UNCHANGED <<task_vars, gcs_vars, path_vars>>
    /\ UNCHANGED <<now, lease_op, acquire, existing, prepared>>

\* Lease::update: the value serialized and the put request
UpdatePrepare(p) ==
    /\ lease_pc[p] = "idle"
    /\ lease[p].some
    /\ Budget
    /\ \E v \in Values :
        LET l == lease[p].val
            expiry == current_timestamp + l.ttl
        IN prepared' = [prepared EXCEPT ![p] =
             with_metadata(
                 if_version_matches(PutRequestNew(LeasePath, to_vec(v)), l.version),
                 LeaseMetadata(l.owner, to_string(expiry)))]
    /\ lease_op' = [lease_op EXCEPT ![p] = "update"]
    /\ lease_pc' = [lease_pc EXCEPT ![p] = "update_put"]
    /\ UNCHANGED <<task_vars, gcs_vars, path_vars>>
    /\ UNCHANGED <<data, version_counter, now, acquire, lease, existing, outcome, writes>>

\* Lease::update: the put executes; self.version = response.version
UpdatePut(p) ==
    /\ lease_pc[p] = "update_put"
    /\ LET call == PutCall(data, version_counter, prepared[p])
           res == MapConflict(call.result)
       IN /\ data' = call.data
          /\ version_counter' = call.counter
          /\ IF res.tag = "Err"
             THEN /\ outcome' = [outcome EXCEPT ![p] = res]
                  /\ UNCHANGED lease
             ELSE /\ outcome' = [outcome EXCEPT ![p] = Ok([unit |-> TRUE])]
                  /\ lease' = [lease EXCEPT ![p] =
                        Some([lease[p].val EXCEPT !.version = res.val.version])]
    /\ writes' = [writes EXCEPT ![p] = @ + 1]
    /\ lease_pc' = [lease_pc EXCEPT ![p] = "done"]
    /\ UNCHANGED <<task_vars, gcs_vars, path_vars>>
    /\ UNCHANGED <<now, lease_op, acquire, existing, prepared>>

\* Lease::renew: the copy request
RenewPrepare(p) ==
    /\ lease_pc[p] = "idle"
    /\ lease[p].some
    /\ Budget
    /\ LET l == lease[p].val
           expiry == current_timestamp + l.ttl
       IN prepared' = [prepared EXCEPT ![p] =
            if_version_matches(
                CopyRequestNew(LeasePath, LeaseMetadata(l.owner, to_string(expiry))),
                l.version)]
    /\ lease_op' = [lease_op EXCEPT ![p] = "renew"]
    /\ lease_pc' = [lease_pc EXCEPT ![p] = "renew_copy"]
    /\ UNCHANGED <<task_vars, gcs_vars, path_vars>>
    /\ UNCHANGED <<data, version_counter, now, acquire, lease, existing, outcome, writes>>

\* Lease::renew: the copy executes; self.version = response.version
RenewCopy(p) ==
    /\ lease_pc[p] = "renew_copy"
    /\ LET call == CopyCall(data, version_counter, prepared[p])
           res == MapConflict(call.result)
       IN /\ data' = call.data
          /\ version_counter' = call.counter
          /\ IF res.tag = "Err"
             THEN /\ outcome' = [outcome EXCEPT ![p] = res]
                  /\ UNCHANGED lease
             ELSE /\ outcome' = [outcome EXCEPT ![p] = Ok([unit |-> TRUE])]
                  /\ lease' = [lease EXCEPT ![p] =
                        Some([lease[p].val EXCEPT !.version = res.val.version])]
    /\ writes' = [writes EXCEPT ![p] = @ + 1]
    /\ lease_pc' = [lease_pc EXCEPT ![p] = "done"]
    /\ UNCHANGED <<task_vars, gcs_vars, path_vars>>
    /\ UNCHANGED <<now, lease_op, acquire, existing, prepared>>

\* Lease::release(self): the get, and the put request built from its response
ReleaseGet(p) ==
    /\ lease_pc[p] = "idle"
    /\ lease[p].some
    /\ Budget
    /\ lease_op' = [lease_op EXCEPT ![p] = "release"]
    /\ LET resp == GetResponse(data, GetRequest(LeasePath)) IN
        /\ existing' = [existing EXCEPT ![p] = resp]
        /\ IF resp.some
           THEN /\ prepared' = [prepared EXCEPT ![p] =
                     with_metadata(
                         if_version_matches(PutRequestNew(LeasePath, resp.val.value),
                                            resp.val.version),
                         LeaseMetadata("", "0"))]
                /\ lease_pc' = [lease_pc EXCEPT ![p] = "release_put"]
                /\ UNCHANGED <<outcome, lease>>
           ELSE /\ outcome' = [outcome EXCEPT ![p] = Err(LeaseNotFound)]
                /\ lease' = [lease EXCEPT ![p] = None]
                /\ lease_pc' = [lease_pc EXCEPT ![p] = "done"]
                /\ UNCHANGED prepared
    /\ UNCHANGED <<task_vars, gcs_vars, path_vars>>
    /\ UNCHANGED <<data, version_counter, now, acquire, writes>>

\* Lease::release(self): the put executes and the lease is gone either way
ReleasePut(p) ==
    /\ lease_pc[p] = "release_put"
    /\ LET call == PutCall(data, version_counter, prepared[p])
           res == MapConflict(call.result)
       IN /\ data' = call.data
          /\ version_counter' = call.counter
          /\ outcome' = [outcome EXCEPT ![p] =
                IF res.tag = "Err" THEN res ELSE Ok([unit |-> TRUE])]
    /\ lease' = [lease EXCEPT ![p] = None]
    /\ writes' = [writes EXCEPT ![p] = @ + 1]
    /\ lease_pc' = [lease_pc EXCEPT ![p] = "done"]
    /\ UNCHANGED <<task_vars, gcs_vars, path_vars>>
    /\ UNCHANGED <<now, lease_op, acquire, existing, prepared>>

\* The caller has the operation's result and is free to start the next one.
LeaseReturn(p) ==
    /\ lease_pc[p] = "done"
    /\ lease_pc' = [lease_pc EXCEPT ![p] = "idle"]
    /\ lease_op' = [lease_op EXCEPT ![p] = "none"]
    /\ acquire' = [acquire EXCEPT ![p] = None]
    /\ existing' = [existing EXCEPT ![p] = None]
    /\ prepared' = [prepared EXCEPT ![p] = NoRequest]
    /\ outcome' = [outcome EXCEPT ![p] = Pending]
    /\ writes' = [writes EXCEPT ![p] = 0]
    /\ UNCHANGED <<task_vars, gcs_vars, path_vars>>
    /\ UNCHANGED <<data, version_counter, now, lease>>

LeaseNext ==
    \/ Tick
    \/ \E p \in Participants :
        \/ AcquireGet(p)
        \/ AcquireInit(p)
        \/ AcquirePut(p)
        \/ AcquireCheck(p)
        \/ AcquireTakeover(p)
        \/ AcquireCopy(p)
        \/ UpdatePrepare(p)
        \/ UpdatePut(p)
        \/ RenewPrepare(p)
        \/ RenewCopy(p)
        \/ ReleaseGet(p)
        \/ ReleasePut(p)
        \/ LeaseReturn(p)

LeaseSpec == Init /\ [][LeaseNext]_vars

\* Metadata of objects that were not written by the lease operations: no
\* header, one of the two headers, an expiry that is no number.
ForeignMetadatas ==
    {MetadataNew,
     MetadataWith(OWNER_HEADER, "test-owner"),
     MetadataWith(EXPIRY_HEADER, "0"),
     LeaseMetadata("test-owner", "soon"),
     LeaseMetadata("different-owner", "")}

\* Another client of the store creates the object at the lease's path:
\* PutRequest::new(path, value).if_absent().metadata(m).execute(client)
ForeignPut ==
    /\ \E m \in ForeignMetadatas :
        LET r == with_metadata(if_absent(PutRequestNew(LeasePath, to_vec(0))), m)
            call == PutCall(data, version_counter, r)
        IN /\ data' = call.data
           /\ version_counter' = call.counter
    /\ UNCHANGED <<task_vars, gcs_vars, path_vars>>
    /\ UNCHANGED <<now, lease_pc, lease_op, acquire, lease, existing, prepared, outcome,
                   writes>>

\* The lease operations on a path that other clients of the store write too.
ForeignNext ==
    \/ ForeignPut
    \/ LeaseNext

ForeignSpec == Init /\ [][ForeignNext]_vars

LeaseTypeOK ==
    /\ now \in 1..MaxTime
    /\ version_counter \in 0..MaxWrites
    /\ DOMAIN data \subseteq {LeasePath}
    /\ \A p \in Participants : writes[p] \in 0..1

\* ==================================================================== gcs
\* Strings are sequences of characters here, so that find and slicing act on
\* them as they do in the code.
Chars == {"b", "k", "/", "."}
ControlChars == {"\t"}
Strings(n) == UNION {[1..k -> Chars] : k \in 0..n}

\* str::find(c): the first position of c
find(s, c) ==
    IF \E i \in 1..Len(s) : s[i] = c
    THEN Some(CHOOSE i \in 1..Len(s) : s[i] = c /\ \A j \in 1..(i - 1) : s[j] # c)
    ELSE None

\* str::split('/')
RECURSIVE split(_)
split(s) ==
    LET slash_pos == find(s, "/") IN
        IF slash_pos.some
        THEN <<SubSeq(s, 1, slash_pos.val - 1)>> \o split(SubSeq(s, slash_pos.val + 1, Len(s)))
        ELSE <<s>>

\* Path::new, "Validate each segment": the first error of the loop, or None
RECURSIVE validate(_)
validate(segments) ==
    IF segments = <<>> THEN None
    ELSE LET segment == Head(segments) IN
         IF segment = <<>> THEN Some("EmptySegment")
         ELSE IF segment \in {<<".">>, <<".", ".">>} THEN Some("RelativeSegment")
         ELSE IF \E i \in 1..Len(segment) : segment[i] \in ControlChars
         THEN Some("ControlCharacter")
         ELSE validate(Tail(segments))

\* Path::new without the test for relative segments
PathNew_NoRelativeCheck(s) ==
    IF s = <<>> THEN Err("Empty")
    ELSE IF s[1] = "/" \/ s[Len(s)] = "/" THEN Err("LeadingTrailingSlash")
    ELSE IF \E i \in 1..(Len(s) - 1) : s[i] = "/" /\ s[i + 1] = "/" THEN Err("EmptySegment")
    ELSE IF \E i \in 1..Len(s) : s[i] \in ControlChars THEN Err("ControlCharacter")
    ELSE Ok(s)

\* Path::new
PathNew(s) ==
    IF s = <<>> THEN Err("Empty")
    ELSE IF s[1] = "/" \/ s[Len(s)] = "/" THEN Err("LeadingTrailingSlash")
    ELSE LET error == validate(split(s)) IN
         IF error.some THEN Err(error.val) ELSE Ok(s)

\* The keys a request can carry: the strings Path::new accepts.
GcsPaths == {s \in Strings(MaxPathLen) : PathNew(s).tag = "Ok"}

\* Error::Other(String)
Other(msg) == [tag |-> "Other", msg |-> msg]

\* parse_path that cuts at the last '/'
parse_path_rfind(path) ==
    IF \E i \in 1..Len(path) : path[i] = "/"
    THEN LET slash_pos == CHOOSE i \in 1..Len(path) :
                            path[i] = "/" /\ \A j \in (i + 1)..Len(path) : path[j] # "/"
         IN Ok([bucket |-> SubSeq(path, 1, slash_pos - 1),
                key |-> SubSeq(path, slash_pos + 1, Len(path))])
    ELSE Err(Other("path must include bucket: expected 'bucket/key'"))

\* parse_path
parse_path(path) ==
    LET slash_pos == find(path, "/") IN
        IF slash_pos.some
        THEN Ok([bucket |-> SubSeq(path, 1, slash_pos.val - 1),
                 key |-> SubSeq(path, slash_pos.val + 1, Len(path))])
        ELSE Err(Other("path must include bucket: expected 'bucket/key'"))

\* urlencoding::encode: unreserved characters stay, the others become %XX
RECURSIVE encode(_)
encode(s) ==
    IF s = <<>> THEN <<>>
    ELSE (IF Head(s) = "/" THEN <<"%", "2", "F">> ELSE <<Head(s)>>) \o encode(Tail(s))

\* The requests made of the GCS backend.
GcsConditions == {None, Some(IfAbsent), Some(IfVersionMatches(VersionNew("7")))}
GcsRequests ==
    {GetRequest(k) : k \in GcsPaths}
    \cup {[PutRequestNew(k, "v1") EXCEPT !.condition = c, !.metadata = m] :
            k \in GcsPaths, c \in GcsConditions,
            m \in {None, Some(MetadataWith("k", "v"))}}
    \cup {[PatchRequestNew(k, MetadataWith("k", "v")) EXCEPT !.condition = c] :
            k \in GcsPaths, c \in GcsConditions}

\* What the server may answer: a status, with or without a generation, the
\* x-goog-meta-* headers (prefix stripped) and a body.
Statuses == {200, 404, 412, 500}
Responses ==
    [status : Statuses, generation : {None, Some("8")},
     meta : {MetadataWith("k", "v")}, body : {"v1"}]

\* A panic of the calling task.
Panic == [tag |-> "Panic"]

\* The url and query of each operation's request.
GetUrl(bucket, key) ==
    [method |-> "GET",
     path |-> <<"storage", "v1", "b", encode(bucket), "o", encode(key)>>,
     query |-> [alt |-> "media"]]

PutUrl(bucket, key, condition) ==
    [method |-> "POST",
     path |-> <<"upload", "storage", "v1", "b", encode(bucket), "o">>,
     query |-> [uploadType |-> "media", name |-> encode(key),
                ifGenerationMatch |->
                    IF ~condition.some THEN None
                    ELSE IF condition.val.kind = "IfAbsent" THEN Some("0")
                    ELSE Some(condition.val.version)]]

PatchUrl(bucket, key, condition) ==
    [method |-> "PATCH",
     path |-> <<"storage", "v1", "b", encode(bucket), "o", encode(key)>>,
     query |-> [ifGenerationMatch |->
                    IF condition.some /\ condition.val.kind = "IfVersionMatches"
                    THEN Some(condition.val.version)
                    ELSE None]]

\* get: match resp.status()
GetStatus(resp) ==
    IF resp.status = 404 THEN Ok(None)
    ELSE IF resp.status = 200
    THEN IF resp.generation.some
         THEN Ok(Some([value |-> resp.body, version |-> VersionNew(resp.generation.val),
                       metadata |-> resp.meta]))
         ELSE Err(Other("missing generation header"))
    ELSE Err(Other("GCS get error"))

\* put: match resp.status()
PutStatus(r, resp) ==
    IF resp.status = 200
    THEN IF resp.generation.some
         THEN Ok([version |-> VersionNew(resp.generation.val)])
         ELSE Err(Other("missing generation"))
    ELSE IF resp.status = 412
    THEN IF r.condition.some THEN Err(ConditionFailed(r.condition.val)) ELSE Panic
    ELSE Err(Other("GCS put error"))

\* patch: match resp.status()
PatchStatus(r, resp) ==
    IF resp.status = 200
    THEN IF resp.generation.some
         THEN Ok([version |-> VersionNew(resp.generation.val)])
         ELSE Err(Other("missing generation"))
    ELSE IF resp.status = 404 THEN Err(NotFound)
    ELSE IF resp.status = 412
    THEN IF r.condition.some THEN Err(ConditionFailed(r.condition.val)) ELSE Panic
    ELSE Err(Other("GCS patch error"))

\* GcsStore::with_endpoint (no auth) or GcsStore::new (auth), nothing in flight
GcsInit ==
    /\ StoreInit
    /\ GcsIdle
    /\ auth \in BOOLEAN
    /\ PathIdle

\* A caller calls get / put / patch of the GCS store.
GcsCall ==
    /\ gcs_pc = "idle"
    /\ gcs_request' \in GcsRequests
    /\ gcs_pc' = "parse_path"
    /\ UNCHANGED <<data, version_counter, task_vars, lease_vars, path_vars>>
    /\ UNCHANGED <<auth, bucket_key, url, token, sent, response, gcs_result>>

\* let (bucket, key) = parse_path(&request.key)?
GcsParsePath ==
    /\ gcs_pc = "parse_path"
    /\ LET parsed == parse_path(gcs_request.key) IN
        IF parsed.tag = "Err"
        THEN /\ gcs_result' = parsed
             /\ gcs_pc' = "done"
             /\ UNCHANGED bucket_key
        ELSE /\ bucket_key' = Some(parsed.val)
             /\ gcs_pc' = "url"
             /\ UNCHANGED gcs_result
    /\ UNCHANGED <<data, version_counter, task_vars, lease_vars, path_vars>>
    /\ UNCHANGED <<auth, gcs_request, url, token, sent, response>>

\* format!(..) of the url and the condition's query parameter
GcsUrl ==
    /\ gcs_pc = "url"
    /\ LET bucket == bucket_key.val.bucket
           key == bucket_key.val.key
       IN url' = Some(IF gcs_request.op = "get" THEN GetUrl(bucket, key)
                      ELSE IF gcs_request.op = "put"
                      THEN PutUrl(bucket, key, gcs_request.condition)
                      ELSE PatchUrl(bucket, key, gcs_request.condition))
    /\ gcs_pc' = "get_token"
    /\ UNCHANGED <<data, version_counter, task_vars, lease_vars, path_vars>>
    /\ UNCHANGED <<auth, gcs_request, bucket_key, token, sent, response, gcs_result>>

\* self.get_token().await?
GcsGetToken ==
    /\ gcs_pc = "get_token"
    /\ \/ /\ ~auth
          /\ token' = None
          /\ gcs_pc' = "send"
          /\ UNCHANGED gcs_result
       \/ /\ auth
          /\ token' = Some("token")
          /\ gcs_pc' = "send"
          /\ UNCHANGED gcs_result
       \/ /\ auth
          /\ gcs_result' = Err(Other("token error"))
          /\ gcs_pc' = "done"
          /\ UNCHANGED token
    /\ UNCHANGED <<data, version_counter, task_vars, lease_vars, path_vars>>
    /\ UNCHANGED <<auth, gcs_request, bucket_key, url, sent, response>>

\* req.send().await: the request goes out; an answer or a transport error
\* comes back
GcsSend ==
    /\ gcs_pc = "send"
    /\ sent' = Some([url |-> url.val,
                     bearer_auth |-> token,
                     meta |-> IF gcs_request.op = "put"
                              THEN unwrap_or_default(gcs_request.metadata)
                              ELSE MetadataNew,
                     body |-> IF gcs_request.op = "put" THEN Some(gcs_request.value)
                              ELSE IF gcs_request.op = "patch"
                              THEN Some([metadata |-> gcs_request.metadata])
                              ELSE None])
    /\ \/ /\ response' \in {Some(resp) : resp \in Responses}
          /\ gcs_pc' = "status"
          /\ UNCHANGED gcs_result
       \/ /\ gcs_result' = Err(Other("request error"))
          /\ gcs_pc' = "done"
          /\ UNCHANGED response
    /\ UNCHANGED <<data, version_counter, task_vars, lease_vars, path_vars>>
    /\ UNCHANGED <<auth, gcs_request, bucket_key, url, token>>

\* match resp.status().as_u16()
GcsStatus ==
    /\ gcs_pc = "status"
    /\ gcs_result' = IF gcs_request.op = "get" THEN GetStatus(response.val)
                     ELSE IF gcs_request.op = "put"
                     THEN PutStatus(gcs_request, response.val)
                     ELSE PatchStatus(gcs_request, response.val)
    /\ gcs_pc' = "done"
    /\ UNCHANGED <<data, version_counter, task_vars, lease_vars, path_vars>>
    /\ UNCHANGED <<auth, gcs_request, bucket_key, url, token, sent, response>>

\* The caller has its result.
GcsReturn ==
    /\ gcs_pc = "done"
    /\ gcs_pc' = "idle"
    /\ gcs_request' = NoRequest
    /\ bucket_key' = None
    /\ url' = None
    /\ token' = None
    /\ sent' = None
    /\ response' = None
    /\ gcs_result' = Pending
    /\ UNCHANGED <<data, version_counter, task_vars, lease_vars, path_vars>>
    /\ UNCHANGED auth

GcsNext ==
    \/ GcsCall
    \/ GcsParsePath
    \/ GcsUrl
    \/ GcsGetToken
    \/ GcsSend
    \/ GcsStatus
    \/ GcsReturn

GcsSpec == GcsInit /\ [][GcsNext]_vars

GcsTypeOK ==
    /\ gcs_pc \in {"idle", "parse_path", "url", "get_token", "send", "status", "done"}
    /\ gcs_request.op \in {"none", "get", "put", "patch"}
    /\ gcs_pc \notin {"idle", "parse_path"} => PathNew(gcs_request.key) = Ok(gcs_request.key)
    /\ auth \in BOOLEAN

\* =================================================================== paths
\* The strings a caller may hand to the request constructors.
InputStrings == UNION {[1..k -> Chars \cup ControlChars] : k \in 0..MaxPathLen}

\* GetRequest::new, PutRequest::new, PatchRequest::new
GetRequest_new(key) ==
    LET path == PathNew(key) IN
        IF path.tag = "Err" THEN path ELSE Ok(GetRequest(path.val))

PutRequest_new(key, bytes) ==
    LET path == PathNew(key) IN
        IF path.tag = "Err" THEN path ELSE Ok(PutRequestNew(path.val, bytes))

PatchRequest_new(key, metadata) ==
    LET path == PathNew(key) IN
        IF path.tag = "Err" THEN path ELSE Ok(PatchRequestNew(path.val, metadata))

\* A caller builds a request from a string.
RequestNew ==
    /\ ~input.some
    /\ \E s \in InputStrings :
        /\ input' = Some(s)
        /\ built' \in {GetRequest_new(s), PutRequest_new(s, "v1"),
                       PatchRequest_new(s, MetadataNew)}
    /\ UNCHANGED executed
    /\ UNCHANGED <<data, version_counter, task_vars, lease_vars, gcs_vars>>

\* request.execute(client): the request, and with it its key, reaches the store
Execute ==
    /\ built.tag = "Ok"
    /\ ~executed.some
    /\ executed' = Some(built.val)
    /\ UNCHANGED <<input, built>>
    /\ UNCHANGED <<data, version_counter, task_vars, lease_vars, gcs_vars>>

\* The caller is done with the request or with the error.
Drop ==
    /\ input.some
    /\ input' = None
    /\ built' = Pending
    /\ executed' = None
    /\ UNCHANGED <<data, version_counter, task_vars, lease_vars, gcs_vars>>

PathNext ==
    \/ RequestNew
    \/ Execute
    \/ Drop

PathSpec == Init /\ [][PathNext]_vars

\* ------------------------------------------------------------ the contract
\* A put or patch that has finished its critical section and still holds the
\* write guard: data is what it left, pre[t] what it found.
Finished(t, op) == pc[t] = "write_unlock" /\ request[t].op = op
Accepted(t) == result[t].tag = "Ok"
Conditional(t, c) == request[t].condition = Some(c)

\* The returned calls on key k that carried IfVersionMatches(v) and were made
\* while v was the current version of k.
Racers(k, v) ==
    {t \in Tasks : /\ pc[t] = "done"
                   /\ IsWrite(request[t])
                   /\ request[t].key = k
                   /\ Conditional(t, IfVersionMatches(v))
                   /\ issued_at[t] = Some(v)}

\* C1: of the concurrent put/patch calls on one key that all carry
\* IfVersionMatches(v) for the current version v, at most one is accepted, the
\* others fail with ConditionFailed{IfVersionMatches(v)}, and when every task is
\* such a call exactly one is accepted.
C1_ExactlyOneWins ==
    \A k \in Keys, v \in Versions :
        LET R == Racers(k, v)
            won == {t \in R : Accepted(t)}
        IN /\ Cardinality(won) <= 1
           /\ \A t \in R \ won : result[t] = Err(ConditionFailed(IfVersionMatches(v)))
           /\ R = Tasks => Cardinality(won) = 1

C1_Witness ==
    \E k \in Keys, v \in Versions :
        /\ Racers(k, v) = Tasks
        /\ \E t \in Tasks : request[t].op = "put"
        /\ \E t \in Tasks : request[t].op = "patch"
        /\ \E t \in Tasks : Accepted(t)

\* C5: put with IfAbsent is accepted iff the key was absent; on an existing key
\* it fails with ConditionFailed{IfAbsent} and the store is as it was.
C5_IfAbsent ==
    \A t \in Tasks :
        Finished(t, "put") /\ Conditional(t, IfAbsent) =>
            LET k == request[t].key IN
            /\ Accepted(t) <=> k \notin DOMAIN pre[t]
            /\ k \in DOMAIN pre[t] =>
                    /\ result[t] = Err(ConditionFailed(IfAbsent))
                    /\ data = pre[t]
            /\ k \notin DOMAIN pre[t] => k \in DOMAIN data

C5_Witness ==
    \E t \in Tasks :
        /\ Finished(t, "put") /\ Conditional(t, IfAbsent)
        /\ request[t].key \in DOMAIN pre[t]
        /\ result[t] = Err(ConditionFailed(IfAbsent))

\* Whether key k has current version v in store d.
HasVersion(d, k, v) == k \in DOMAIN d /\ d[k].version = v

\* C6 as claimed: put and patch with IfVersionMatches(v) are accepted iff the
\* current version is v, and in every other case fail with
\* ConditionFailed{IfVersionMatches(v)} leaving the store unchanged.
C6_AsClaimed ==
    \A t \in Tasks, v \in Versions :
        pc[t] = "write_unlock" /\ Conditional(t, IfVersionMatches(v)) =>
            LET k == request[t].key IN
            /\ Accepted(t) <=> HasVersion(pre[t], k, v)
            /\ ~HasVersion(pre[t], k, v) =>
                    /\ result[t] = Err(ConditionFailed(IfVersionMatches(v)))
                    /\ data = pre[t]

\* C6 amended: put and patch with IfVersionMatches(v) are accepted iff the
\* current version is v; in every other case the store is unchanged and the
\* call fails with ConditionFailed{IfVersionMatches(v)}, except that patch on an
\* absent key fails with NotFound.
C6_IfVersionMatches ==
    \A t \in Tasks, v \in Versions :
        pc[t] = "write_unlock" /\ Conditional(t, IfVersionMatches(v)) =>
            LET k == request[t].key IN
            /\ Accepted(t) <=> HasVersion(pre[t], k, v)
            /\ ~HasVersion(pre[t], k, v) =>
                    /\ data = pre[t]
                    /\ result[t] =
                         IF request[t].op = "patch" /\ k \notin DOMAIN pre[t]
                         THEN Err(NotFound)
                         ELSE Err(ConditionFailed(IfVersionMatches(v)))

C6_Witness ==
    \E t \in Tasks, v \in Versions :
        /\ Finished(t, "patch") /\ Conditional(t, IfVersionMatches(v))
        /\ request[t].key \in DOMAIN pre[t]
        /\ pre[t][request[t].key].version # v
        /\ result[t] = Err(ConditionFailed(IfVersionMatches(v)))

NoDuplicates(s) == \A i, j \in 1..Len(s) : s[i] = s[j] => i = j

\* C7: every accepted put or patch returns and stores a version the key has
\* never had, so no version of a key becomes current a second time.
C7_FreshVersion ==
    /\ \A k \in Keys :
        /\ NoDuplicates(versions[k])
        /\ k \in DOMAIN data <=> versions[k] # <<>>
        /\ k \in DOMAIN data => data[k].version = versions[k][Len(versions[k])]
    /\ \A t \in Tasks :
        pc[t] = "write_unlock" /\ Accepted(t) =>
            /\ result[t].val.version = data[request[t].key].version
            /\ request[t].key \in DOMAIN pre[t] =>
                    result[t].val.version # pre[t][request[t].key].version

C7_Witness ==
    \E t \in Tasks :
        /\ Finished(t, "patch") /\ Accepted(t)
        /\ Len(versions[request[t].key]) >= 3

\* C8: get returns None while no write to the key has been accepted, and
\* otherwise the value, metadata and version of the last accepted write, the
\* version being the one that write returned.
C8_GetLastWrite ==
    \A t \in Tasks :
        pc[t] = "read_unlock" =>
            LET k == request[t].key IN
            result[t] = Ok(IF k \in DOMAIN last_write THEN Some(last_write[k]) ELSE None)

C8_Witness ==
    \E t, u \in Tasks :
        /\ pc[t] = "read_unlock"
        /\ result[t].val.some
        /\ result[t].val.val.metadata # MetadataNew
        /\ Len(versions[request[t].key]) >= 2
        /\ pc[u] = "done" /\ IsWrite(request[u]) /\ ~Accepted(u)
        /\ request[u].key = request[t].key

\* C9: patch on an absent key fails with NotFound and creates nothing; an
\* accepted patch keeps the bytes, stores exactly the request's metadata and a
\* new version, and touches no other key.
C9_Patch ==
    \A t \in Tasks :
        Finished(t, "patch") =>
            LET k == request[t].key IN
            /\ k \notin DOMAIN pre[t] => result[t] = Err(NotFound) /\ data = pre[t]
            /\ Accepted(t) =>
                    /\ k \in DOMAIN pre[t]
                    /\ DOMAIN data = DOMAIN pre[t]
                    /\ data[k].value = pre[t][k].value
                    /\ data[k].metadata = request[t].metadata
                    /\ data[k].version # pre[t][k].version
                    /\ \A o \in DOMAIN data \ {k} : data[o] = pre[t][o]

C9_Witness ==
    \E t \in Tasks :
        /\ Finished(t, "patch") /\ Accepted(t)
        /\ DOMAIN pre[t][request[t].key].metadata = {"k"}
        /\ DOMAIN data[request[t].key].metadata = {"k2"}

\* C10: put without a condition is accepted on an absent and on an existing
\* key alike, and every accepted put stores exactly the request's metadata,
\* empty when the request carries none.
C10_Put ==
    \A t \in Tasks :
        Finished(t, "put") =>
            LET k == request[t].key IN
            /\ request[t].condition = None => Accepted(t)
            /\ Accepted(t) =>
                    /\ data[k].value = request[t].value
                    /\ data[k].metadata =
                         IF request[t].metadata.some THEN request[t].metadata.val
                         ELSE MetadataNew

C10_Witness ==
    \E t \in Tasks :
        /\ Finished(t, "put") /\ Accepted(t)
        /\ request[t].condition = None
        /\ request[t].metadata = None
        /\ request[t].key \in DOMAIN pre[t]
        /\ pre[t][request[t].key].metadata # MetadataNew
        /\ data[request[t].key].metadata = MetadataNew

\* ---------------------------------------------------------- lease safety
\* The lease stored at the path, read as the protocol reads it.
Stored == data[LeasePath]
StoredOwner == Stored.metadata[OWNER_HEADER]
StoredExpiry == parse(Stored.metadata[EXPIRY_HEADER]).val
Alive(expiry) == expiry > now
HeldBy(o) == LeasePath \in DOMAIN data /\ StoredOwner = o /\ Alive(StoredExpiry)

\* p's acquire has returned with a lease.
Acquired(p) == lease_pc[p] = "done" /\ lease_op[p] = "acquire" /\ outcome[p].tag = "Ok"

\* The step in which the store accepts the write of p's acquire.
AcquireAccepted(p) ==
    /\ lease_pc[p] \in {"acquire_put", "acquire_copy"}
    /\ lease_pc'[p] = "done"
    /\ outcome'[p].tag = "Ok"

\* C2: the write of an acquire by owner B is never accepted while the stored
\* lease has another owner and an expiry greater than now; and at every moment
\* at most one owner has an alive lease stored at the path.
C2_NoLiveTakeover ==
    /\ [][\A p \in Participants :
            AcquireAccepted(p) /\ LeasePath \in DOMAIN data =>
                StoredOwner = acquire[p].val.owner \/ ~Alive(StoredExpiry)]_vars
    /\ [](\A o1, o2 \in Owners : HeldBy(o1) /\ HeldBy(o2) => o1 = o2)

C2_Witness ==
    \E p \in Participants :
        /\ Acquired(p)
        /\ existing[p].some
        /\ existing[p].val.metadata[OWNER_HEADER] \in Owners \ {acquire[p].val.owner}
        /\ HeldBy(acquire[p].val.owner)

\* What acquire's get returned to p: a lease that is alive now under an owner
\* other than the one p asks for.
SeesLiveLeaseOfOther(p) ==
    /\ existing[p].some
    /\ LET metadata == existing[p].val.metadata IN
        /\ OWNER_HEADER \in DOMAIN metadata
        /\ EXPIRY_HEADER \in DOMAIN metadata
        /\ parse(metadata[EXPIRY_HEADER]).some
        /\ Alive(parse(metadata[EXPIRY_HEADER]).val)
        /\ metadata[OWNER_HEADER] # acquire[p].val.owner

\* C3: an acquire that finds a lease with expiry > now and an owner other than
\* its own goes no further than the test: it returns LeaseHeld, has issued no
\* write and made no lease handle, and the step that returns LeaseHeld leaves
\* the store as it is.
C3_LeaseHeld ==
    /\ [](\A p \in Participants :
            /\ lease_op[p] = "acquire" /\ lease_pc[p] # "acquire_match"
                    /\ SeesLiveLeaseOfOther(p)
                => /\ lease_pc[p] = "done"
                   /\ outcome[p] = Err(LeaseHeld)
            /\ lease_pc[p] = "done" /\ outcome[p] = Err(LeaseHeld)
                => /\ writes[p] = 0
                   /\ lease[p] = None)
    /\ [][\A p \in Participants :
            lease_pc[p] = "acquire_match" /\ outcome'[p] = Err(LeaseHeld) =>
                /\ data' = data
                /\ version_counter' = version_counter]_vars

C3_Witness ==
    \E p \in Participants :
        /\ lease_pc[p] = "done" /\ lease_op[p] = "acquire"
        /\ outcome[p] = Err(LeaseHeld)
        /\ SeesLiveLeaseOfOther(p)
        /\ data[LeasePath].version = existing[p].val.version

\* The returned acquires that read version v of the object and went on to
\* their conditional write.
AcquireRacers(v) ==
    {p \in Participants : /\ lease_pc[p] = "done"
                          /\ lease_op[p] = "acquire"
                          /\ existing[p].some
                          /\ existing[p].val.version = v
                          /\ writes[p] = 1}

SeenVersions == {existing[p].val.version : p \in {q \in Participants : existing[q].some}}

\* C4: of the acquires that read the same version of an existing object and
\* reached their conditional write, at most one succeeds and the others return
\* Conflict; when every participant is such an acquire, exactly one succeeds.
C4_AcquireRace ==
    \A v \in SeenVersions :
        LET R == AcquireRacers(v)
            won == {p \in R : outcome[p].tag = "Ok"}
        IN /\ Cardinality(won) <= 1
           /\ \A p \in R \ won : outcome[p] = Err(Conflict)
           /\ R = Participants => Cardinality(won) = 1

C4_Witness ==
    \E v \in SeenVersions :
        /\ AcquireRacers(v) = Participants
        /\ \A p, q \in Participants : p # q => acquire[p].val.owner # acquire[q].val.owner
        /\ \E p \in Participants : outcome[p].tag = "Ok"
        /\ \E p \in Participants : outcome[p] = Err(Conflict)
        /\ \A p \in Participants : existing[p].val.metadata = LeaseMetadata("", "0")

\* ------------------------------------------------------- lease operations
\* p's acquire has returned; its get found no object / found one.
AcquireDone(p) == lease_pc[p] = "done" /\ lease_op[p] = "acquire"
FoundNone(p) == AcquireDone(p) /\ ~existing[p].some
Found(p) == AcquireDone(p) /\ existing[p].some

\* The metadata is exactly the owner key with owner and the expiry key with the
\* decimal text of expiry.
IsLeaseOf(metadata, owner, expiry) ==
    /\ DOMAIN metadata = {OWNER_HEADER, EXPIRY_HEADER}
    /\ metadata[OWNER_HEADER] = owner
    /\ metadata[EXPIRY_HEADER] = to_string(expiry)

\* The value v is what the bytes serialize.
Serializes(bytes, v) == bytes = "{\"count\":" \o to_string(v) \o "}"

\* C11: an acquire that finds no object prepares the serialized init value with
\* metadata {owner, now + ttl}; when its put runs on the still empty path the
\* object is created with exactly that value and metadata, and the acquire
\* returns init with a lease that tracks the version of the created object.
C11_AcquireFresh ==
    [][\A p \in Participants :
        /\ lease_pc[p] = "acquire_match" /\ lease_pc'[p] = "acquire_put" =>
                /\ Serializes(prepared'[p].value, acquire[p].val.init_value)
                /\ IsLeaseOf(prepared'[p].metadata.val, acquire[p].val.owner,
                             now + acquire[p].val.ttl)
        /\ lease_pc[p] = "acquire_put" /\ lease_pc'[p] = "done"
                    /\ LeasePath \notin DOMAIN data =>
                /\ outcome'[p] = Ok([value |-> acquire[p].val.init_value])
                /\ lease'[p].some
                /\ lease'[p].val.owner = acquire[p].val.owner
                /\ lease'[p].val.ttl = acquire[p].val.ttl
                /\ LeasePath \in DOMAIN data'
                /\ data'[LeasePath].version = lease'[p].val.version
                /\ data'[LeasePath].value = prepared[p].value
                /\ data'[LeasePath].metadata = prepared[p].metadata.val]_vars

C11_Witness ==
    \E p \in Participants :
        /\ FoundNone(p)
        /\ outcome[p] = Ok([value |-> acquire[p].val.init_value])
        /\ data[LeasePath].version = lease[p].val.version
        /\ Serializes(data[LeasePath].value, acquire[p].val.init_value)
        /\ IsLeaseOf(data[LeasePath].metadata, acquire[p].val.owner,
                     now + acquire[p].val.ttl)

\* p's acquire found the path under the owner it asks for.
FoundOwn(p) == Found(p) /\ existing[p].val.metadata[OWNER_HEADER] = acquire[p].val.owner

\* p's acquire returned the value of the object its get read.
ReturnedExisting(p) ==
    /\ outcome[p].tag = "Ok"
    /\ Serializes(existing[p].val.value, outcome[p].val.value)
    /\ lease[p].some

\* p's acquire failed with Conflict, the object having left the version read.
LostRace(p) ==
    /\ outcome[p] = Err(Conflict)
    /\ data[LeasePath].version # existing[p].val.version

\* The expiry of the lease that p's get read.
FoundExpiry(p) == parse(existing[p].val.metadata[EXPIRY_HEADER]).val

\* C12 as stated: an acquire by the owner stored on an alive lease succeeds
\* and returns the stored value.
C12_AsClaimed ==
    \A p \in Participants : FoundOwn(p) /\ Alive(FoundExpiry(p)) => ReturnedExisting(p)

\* C12: an acquire by the owner stored at the path returns the value its get
\* read, never init, with a lease; it fails only with Conflict, and only when
\* another write moved the object between its get and its write.
C12_Reacquire ==
    \A p \in Participants : FoundOwn(p) => ReturnedExisting(p) \/ LostRace(p)

C12_Witness ==
    \E p \in Participants :
        /\ FoundOwn(p)
        /\ Alive(FoundExpiry(p))
        /\ ReturnedExisting(p)
        /\ existing[p].val.value = to_vec(1)
        /\ acquire[p].val.init_value = 0
        /\ outcome[p].val.value = 1

\* C13: an acquire, by any owner, that tests a lease whose expiry is not
\* greater than now goes on to its write, prepared with {owner, now + ttl};
\* the write, run on the version read, is accepted, keeps the bytes, stores
\* the prepared metadata, and the acquire returns the value stored before.
C13_ExpiredTakeover ==
    [][\A p \in Participants :
        /\ lease_pc[p] = "acquire_match" /\ lease_pc'[p] # "acquire_match"
                    /\ existing[p].some /\ ~(FoundExpiry(p) > now) =>
                lease_pc'[p] = "acquire_takeover"
        /\ lease_pc[p] = "acquire_takeover" /\ lease_pc'[p] # "acquire_takeover" =>
                /\ lease_pc'[p] = "acquire_copy"
                /\ IsLeaseOf(prepared'[p].metadata, acquire[p].val.owner,
                             now + acquire[p].val.ttl)
        /\ lease_pc[p] = "acquire_copy" /\ lease_pc'[p] = "done"
                    /\ ~(FoundExpiry(p) > now)
                    /\ data[LeasePath].version = existing[p].val.version =>
                /\ outcome'[p].tag = "Ok"
                /\ Serializes(data[LeasePath].value, outcome'[p].val.value)
                /\ data'[LeasePath].value = data[LeasePath].value
                /\ data'[LeasePath].metadata = prepared[p].metadata
                /\ data'[LeasePath].version = lease'[p].val.version
                /\ data'[LeasePath].version # data[LeasePath].version]_vars

C13_Witness ==
    \E p \in Participants :
        /\ Found(p)
        /\ existing[p].val.metadata[OWNER_HEADER] \in Owners \ {acquire[p].val.owner}
        /\ FoundExpiry(p) = now
        /\ ReturnedExisting(p)
        /\ HeldBy(acquire[p].val.owner)

\* p's acquire found the released lease.
FoundReleased(p) ==
    /\ Found(p)
    /\ existing[p].val.metadata[OWNER_HEADER] = ""
    /\ existing[p].val.metadata[EXPIRY_HEADER] = "0"

\* C14 as stated: an acquire that finds the released lease succeeds.
C14_AsClaimed ==
    \A p \in Participants : FoundReleased(p) => ReturnedExisting(p)

\* C14: an acquire, by any owner and at any time, that finds the released
\* lease returns the value stored at the release, with a lease; it fails only
\* with Conflict, and only when another write moved the object between its
\* get and its write.
C14_AfterRelease ==
    \A p \in Participants : FoundReleased(p) => ReturnedExisting(p) \/ LostRace(p)

C14_Witness ==
    \E p \in Participants :
        /\ FoundReleased(p)
        /\ ReturnedExisting(p)
        /\ now = 1
        /\ HeldBy(acquire[p].val.owner)

\* The clock reading of the update or renew in flight at p: it prepared the
\* expiry as that reading plus the lease's ttl.
CalledAt(p, metadata) == parse(metadata[EXPIRY_HEADER]).val - lease[p].val.ttl

\* The version p's lease tracks is not the version stored.
Stale(p) == lease[p].some /\ data[LeasePath].version # lease[p].val.version

\* p's operation executes its write in this step.
Writes(p, at) == lease_pc[p] = at /\ lease_pc'[p] = "done"

\* C15 as documented: an update fails if the object has left the version the
\* lease tracks, or if the stored expiry was no longer greater than now when
\* update was called.
C15_AsDocumented ==
    [][\A p \in Participants :
        Writes(p, "update_put")
            /\ (\/ Stale(p)
                \/ StoredExpiry <= CalledAt(p, prepared[p].metadata.val)) =>
        outcome'[p].tag = "Err"]_vars

\* The returned acquires that found no object and reached their put.
FreshRacers == {p \in Participants : FoundNone(p) /\ writes[p] = 1}

\* C16 as stated: of the acquires that raced on put IfAbsent exactly one wins
\* and the others return Conflict.
C16_AsClaimed ==
    LET won == {p \in FreshRacers : outcome[p].tag = "Ok"} IN
        /\ Cardinality(won) <= 1
        /\ \A p \in FreshRacers \ won : outcome[p] = Err(Conflict)
        /\ FreshRacers = Participants => Cardinality(won) = 1

\* C17: renew prepares {owner of the lease, now + ttl} conditional on the
\* tracked version. Run on that version it is accepted: the bytes stay, the
\* prepared metadata is stored, the object gets a new version and the lease
\* tracks it. Run on another version it fails with Conflict and changes
\* neither the store nor the lease.
C17_Renew ==
    [][\A p \in Participants :
        /\ lease_pc[p] = "idle" /\ lease_pc'[p] = "renew_copy" =>
                /\ IsLeaseOf(prepared'[p].metadata, lease[p].val.owner,
                             now + lease[p].val.ttl)
                /\ prepared'[p].condition = Some(IfVersionMatches(lease[p].val.version))
        /\ Writes(p, "renew_copy") /\ ~Stale(p) =>
                /\ outcome'[p].tag = "Ok"
                /\ data'[LeasePath].value = data[LeasePath].value
                /\ data'[LeasePath].metadata = prepared[p].metadata
                /\ data'[LeasePath].version # data[LeasePath].version
                /\ version_counter' = version_counter + 1
                /\ data'[LeasePath].version = to_string(version_counter')
                /\ lease'[p] = Some([lease[p].val EXCEPT
                                        !.version = data'[LeasePath].version])
        /\ Writes(p, "renew_copy") /\ Stale(p) =>
                /\ outcome'[p] = Err(Conflict)
                /\ data' = data
                /\ version_counter' = version_counter
                /\ lease'[p] = lease[p]]_vars

C17_Witness ==
    \E p \in Participants :
        /\ lease_pc[p] = "done" /\ lease_op[p] = "renew"
        /\ outcome[p].tag = "Ok"
        /\ ~Stale(p)
        /\ data[LeasePath].value = to_vec(1)
        /\ IsLeaseOf(data[LeasePath].metadata, lease[p].val.owner, now + lease[p].val.ttl)

\* The write of q's operation is accepted in this step.
Accepts(q) ==
    /\ lease_pc[q] \in {"acquire_put", "acquire_copy", "update_put", "renew_copy",
                        "release_put"}
    /\ lease_pc'[q] = "done"
    /\ outcome'[q].tag = "Ok"

\* C19: a write accepted for another participant leaves p's lease tracking a
\* version that is not the stored one, and it stays so as long as p has the
\* lease; every update and renew through such a lease fails with Conflict and
\* changes neither the store nor the lease. An update is prepared with
\* IfVersionMatches(tracked version); when accepted it stores its value and
\* the lease tracks the version returned.
C19_StaleHandle ==
    [][\A p \in Participants :
        /\ \A q \in Participants \ {p} :
                lease[p].some /\ Accepts(q) => Stale(p)'
        /\ Stale(p) /\ lease'[p].some => Stale(p)'
        /\ Stale(p) /\ (Writes(p, "update_put") \/ Writes(p, "renew_copy")) =>
                /\ outcome'[p] = Err(Conflict)
                /\ data' = data
                /\ version_counter' = version_counter
                /\ lease'[p] = lease[p]
        /\ lease_pc[p] = "idle" /\ lease_pc'[p] = "update_put" =>
                prepared'[p].condition = Some(IfVersionMatches(lease[p].val.version))
        /\ Writes(p, "update_put") /\ outcome'[p].tag = "Ok" =>
                /\ ~Stale(p)
                /\ data'[LeasePath].value = prepared[p].value
                /\ data'[LeasePath].version = to_string(version_counter')
                /\ lease'[p].val.version = data'[LeasePath].version]_vars

C19_Witness ==
    \E p \in Participants, q \in Participants :
        /\ p # q
        /\ lease_pc[p] = "done" /\ lease_op[p] \in {"update", "renew"}
        /\ outcome[p] = Err(Conflict)
        /\ Stale(p)
        /\ lease[q].some /\ ~Stale(q)
        /\ lease[q].val.owner = lease[p].val.owner

\* The metadata lacks the owner key or the expiry key, or its expiry is not
\* the decimal text of a number.
Malformed(metadata) ==
    \/ OWNER_HEADER \notin DOMAIN metadata
    \/ EXPIRY_HEADER \notin DOMAIN metadata
    \/ \A n \in 0..(MaxTime + 2) : metadata[EXPIRY_HEADER] # to_string(n)

\* C18: an acquire whose get returns an object with such metadata goes no
\* further than reading the two keys: whatever its owner it returns
\* InvalidMetadata, with no write issued and no lease made, and the object is
\* the one its get read.
C18_InvalidMetadata ==
    \A p \in Participants :
        lease_op[p] = "acquire" /\ lease_pc[p] # "acquire_match"
                /\ existing[p].some /\ Malformed(existing[p].val.metadata) =>
            /\ lease_pc[p] = "done"
            /\ outcome[p] = Err(InvalidMetadata)
            /\ writes[p] = 0
            /\ lease[p] = None
            /\ data[LeasePath] = existing[p].val

C18_Witness ==
    \E p \in Participants :
        /\ AcquireDone(p)
        /\ outcome[p] = Err(InvalidMetadata)
        /\ existing[p].some
        /\ existing[p].val.metadata = MetadataWith(OWNER_HEADER, acquire[p].val.owner)
        /\ data[LeasePath] = existing[p].val

\* ---------------------------------------------------------- gcs backend
HasSlash(s) == \E i \in 1..Len(s) : s[i] = "/"

\* C20: a get, put or patch whose path has no '/' returns Other with no url
\* built and no request sent; for a path with a '/' the bucket has no '/' and
\* bucket, '/', object name put together are the path.
C20_ParsePath ==
    gcs_pc \notin {"idle", "parse_path"} =>
        IF HasSlash(gcs_request.key)
        THEN /\ bucket_key.some
             /\ ~HasSlash(bucket_key.val.bucket)
             /\ bucket_key.val.bucket \o <<"/">> \o bucket_key.val.key = gcs_request.key
        ELSE /\ gcs_pc = "done"
             /\ gcs_result.tag = "Err"
             /\ gcs_result.err.tag = "Other"
             /\ url = None
             /\ sent = None

C20_Witness ==
    /\ gcs_pc = "done"
    /\ gcs_request.op = "put"
    /\ gcs_request.key = <<"b", "k">>
    /\ gcs_result = Err(Other("path must include bucket: expected 'bucket/key'"))
    /\ sent = None

\* C21 as stated: whatever the request and whatever status the server
\* answers, the call returns a result, and the result is the one the status
\* mapping gives (200 with a generation is success; 404 is None on get and
\* NotFound on patch; 412 on put or patch is ConditionFailed with the
\* request's condition; any other status is Other).
C21_AsClaimed ==
    gcs_pc = "done" /\ response.some =>
        LET status == response.val.status
            op == gcs_request.op
        IN /\ gcs_result.tag \in {"Ok", "Err"}
           /\ status = 200 /\ response.val.generation.some => gcs_result.tag = "Ok"
           /\ status = 404 /\ op = "get" => gcs_result = Ok(None)
           /\ status = 404 /\ op = "patch" => gcs_result = Err(NotFound)
           /\ status = 412 /\ op \in {"put", "patch"} =>
                /\ gcs_request.condition.some
                /\ gcs_result = Err(ConditionFailed(gcs_request.condition.val))
           /\ \/ status \notin {200, 404, 412}
              \/ status = 404 /\ op = "put"
              \/ status = 412 /\ op = "get"
              => gcs_result.tag = "Err" /\ gcs_result.err.tag = "Other"

\* C22 as stated: a put or patch that carries a condition is sent with
\* ifGenerationMatch, 0 for IfAbsent and v for IfVersionMatches(v).
C22_AsClaimed ==
    sent.some /\ gcs_request.op \in {"put", "patch"} /\ gcs_request.condition.some =>
        sent.val.url.query.ifGenerationMatch =
            IF gcs_request.condition.val.kind = "IfAbsent" THEN Some("0")
            ELSE Some(gcs_request.condition.val.version)

\* ----------------------------------------------------------------- paths
\* s[i] begins a segment / ends a segment.
SegmentStart(s, i) == i = 1 \/ s[i - 1] = "/"
SegmentEnd(s, i) == i = Len(s) \/ s[i + 1] = "/"

\* The conditions of the contract on a path, position by position.
ValidPath(s) ==
    /\ s # <<>>
    /\ s[1] # "/"
    /\ s[Len(s)] # "/"
    /\ \A i \in 1..(Len(s) - 1) : ~(s[i] = "/" /\ s[i + 1] = "/")
    /\ \A i \in 1..Len(s) : ~(s[i] = "." /\ SegmentStart(s, i) /\ SegmentEnd(s, i))
    /\ \A i \in 1..(Len(s) - 1) :
            ~(s[i] = "." /\ s[i + 1] = "." /\ SegmentStart(s, i) /\ SegmentEnd(s, i + 1))
    /\ \A i \in 1..Len(s) : s[i] # "\t"

\* C23: the three constructors return a request exactly for the strings that
\* are non-empty, without leading or trailing '/', without empty segment,
\* without '.' or '..' segment and without control character; the request's
\* key is the string, and only keys with these properties reach the store.
C23_PathNew ==
    /\ input.some =>
        /\ built.tag = "Ok" <=> ValidPath(input.val)
        /\ built.tag = "Ok" => built.val.key = input.val
        /\ built.tag = "Err" => ~executed.some
    /\ executed.some => ValidPath(executed.val.key)

C23_Witness ==
    /\ input = Some(<<"b", "/", ".", ".">>)
    /\ built = Err("RelativeSegment")
    /\ ~executed.some

\* The payload bytes stored at the lease path, if any.
Payload(d) == IF LeasePath \in DOMAIN d THEN Some(d[LeasePath].value) ELSE None

\* C24: the payload stored at the path changes only in a step in which an
\* update's put is accepted, or in which an acquire's put creates the object;
\* an accepted takeover or re-acquire, renew or release leaves the payload
\* what it was immediately before the write.
C24_PayloadFrame ==
    [][/\ Payload(data') # Payload(data) =>
            \E p \in Participants :
                /\ Accepts(p)
                /\ \/ lease_pc[p] = "update_put"
                   \/ lease_pc[p] = "acquire_put" /\ ~Payload(data).some
       /\ \A p \in Participants :
            Accepts(p) /\ lease_pc[p] \in {"acquire_copy", "renew_copy", "release_put"} =>
                /\ data' # data
                /\ Payload(data') = Payload(data)]_vars

\* A release was accepted on an object whose payload an update had replaced.
C24_Witness ==
    \E p \in Participants :
        /\ lease_pc[p] = "done" /\ lease_op[p] = "release" /\ outcome[p].tag = "Ok"
        /\ data[LeasePath].metadata = LeaseMetadata("", "0")
        /\ data[LeasePath].value = to_vec(1)
        /\ version_counter = 3

\* The live handles whose tracked version is the one stored at the path.
Current == {p \in Participants : lease[p].some /\ ~Stale(p)}

\* C25: at most one live handle tracks the version stored at the path, and an
\* update or renew is accepted only for a handle that does.
C25_OneCurrentHandle ==
    /\ [](LeasePath \in DOMAIN data => Cardinality(Current) <= 1)
    /\ [][\A p \in Participants :
            Accepts(p) /\ lease_pc[p] \in {"update_put", "renew_copy"} =>
                p \in Current]_vars

\* Two live handles, one current and one stale, and the current one has just
\* had a write accepted.
C25_Witness ==
    \E p, q \in Participants :
        /\ p # q
        /\ lease[p].some /\ lease[q].some
        /\ Stale(q) /\ ~Stale(p)
        /\ lease_pc[p] = "done" /\ lease_op[p] \in {"update", "renew"}
        /\ outcome[p].tag = "Ok"

\* p's operation returns in this step.
Returns(p) == lease_pc[p] # "done" /\ lease_pc'[p] = "done"

\* C26: an operation executes at most one write request, and the step in which
\* it returns an error leaves the store as it was; as no earlier step of the
\* operation writes, the store is as if the operation had not run.
C26_OneWriteNoEffectOnError ==
    /\ [](\A p \in Participants : writes[p] <= 1)
    /\ [][\A p \in Participants :
            /\ data' # data \/ version_counter' # version_counter =>
                    \E q \in Participants : Accepts(q)
            /\ Returns(p) /\ outcome'[p].tag = "Err" =>
                    /\ data' = data
                    /\ version_counter' = version_counter]_vars

\* An update was refused after its one write request, the store being another
\* handle's.
C26_Witness ==
    \E p \in Participants :
        /\ lease_pc[p] = "done" /\ lease_op[p] = "update"
        /\ outcome[p] = Err(Conflict)
        /\ writes[p] = 1
        /\ Stale(p)

C28_AcquireValue ==
    [][\A p \in Participants :
        Accepts(p) /\ lease_pc[p] \in {"acquire_put", "acquire_copy"} =>
            /\ Serializes(data'[LeasePath].value, outcome'[p].val.value)
            /\ lease_pc[p] = "acquire_copy" =>
                    Serializes(data[LeasePath].value, outcome'[p].val.value)]_vars

\* An acquire took the lease over and returned the value an update had stored,
\* while the updater's handle went stale.
C28_Witness ==
    \E p, q \in Participants :
        /\ p # q
        /\ Found(p) /\ outcome[p] = Ok([value |-> 1])
        /\ acquire[p].val.init_value = 0
        /\ data[LeasePath].value = to_vec(1)
        /\ lease[q].some /\ Stale(q)

\* ------------------------------------------------------------- the locks
\* t's call has started and has not returned.
InCall(t) == pc[t] \notin {"idle", "done"}

\* C29: the version-counter lock is taken, and waited for, only by the task
\* that holds the data write lock; while a call is in progress some task can
\* take a step of its call; and every call that has started returns.
C29_NoDeadlock ==
    /\ [](\A t \in Tasks :
            /\ counter_writer = t => data_writer = t
            /\ pc[t] \in {"counter_lock", "mint"} => data_writer = t
            /\ t \in data_readers => counter_writer # t)
    /\ []((\E t \in Tasks : InCall(t)) => \E t \in Tasks : ENABLED Progress(t))
    /\ \A t \in Tasks : InCall(t) ~> pc[t] = "done"

\* A writer holds both locks while the other task waits in the queue.
C29_Witness ==
    \E t, u \in Tasks :
        /\ t # u
        /\ pc[t] = "mint" /\ counter_writer = t /\ data_writer = t
        /\ data_queue = <<u>>

TypeOK ==
    /\ version_counter \in 0..MaxVersion
    /\ DOMAIN data \subseteq Keys
    /\ data_writer \in Tasks \cup {NoTask}
    /\ data_readers \subseteq Tasks
====
